---- MODULE Spec2Model ----
(***************************************************************************)
(* Model of the camera frame acquisition client of BambuCamera.js:         *)
(* class PrinterCameraNode (start, stop, _connect with its socket          *)
(* handlers, _scheduleReconnect) driven by a TLS transport and two timers. *)
(*                                                                         *)
(* A socket goes through                                                   *)
(*   none -> connecting -> open -> {failing -> errored, closing} -> closed *)
(* "failing": the transport has failed, 'error' is not emitted yet;        *)
(* "writefailing": the same, the failure being that of the write of the    *)
(*            authentication record;                                       *)
(* "errored": 'error' was emitted, 'close' (hadError = true) is pending;   *)
(* "closing": destroyed locally or ended by the peer, 'close'              *)
(*            (hadError = false) is pending.                               *)
(* Bytes are naturals 0..255; buffers are sequences of bytes.              *)
(***************************************************************************)
EXTENDS Integers, Sequences, FiniteSets, TLC

\* ------------------------------------------------------------------ bounds
MaxConnects == 4         \* sockets available: tls.connect calls in one run
MaxSessionConnects == 3  \* tls.connect calls in the runs with every event
MaxStopCalls == 1        \* external stop() calls in one run
MaxLateChunks == 2       \* 'data' events raised by a destroyed socket
MaxNameLength == 34      \* characters of the longest username tried
MaxStarts == 2           \* calls of start() on one session object
MaxDownloads == 2        \* print messages that start a download
MaxTicks == 4            \* clock ticks after the call of getGcodeSettings
MaxPresses == 2          \* presses of the alert button of one /print reply

\* ------------------------------------------------------- program constants
HeaderSize == 16
MaxPayloadSize == 15 * 1024 * 1024
ReconnectDelayMs == 3000
MaxRetryAttempts == 2
JPEG_START_MARKER == <<255, 216, 255, 224>>
JPEG_END_MARKER == <<255, 217>>

\* --------------------------------------------------------- byte sequences
Take(s, n) == SubSeq(s, 1, n)
Drop(s, n) == SubSeq(s, n + 1, Len(s))

\* An unsigned 32-bit value v is kept as its top byte and its low 24 bits,
\* v = hi * 2^24 + lo, so that every value a header can declare is exact.
U32(n) == [hi |-> n \div 16777216, lo |-> n % 16777216]
U32IsZero(v) == v.hi = 0 /\ v.lo = 0
U32Greater(v, n) == v.hi > n \div 16777216 \/ (v.hi = n \div 16777216 /\ v.lo > n % 16777216)
\* a buffer length (below 2^24 in every run) compared with a 32-bit value
LenAtLeast(len, v) == v.hi = 0 /\ len >= v.lo

\* Buffer.readUInt32LE(0)
ReadUInt32LE(b) == [hi |-> b[4], lo |-> b[1] + b[2] * 256 + b[3] * 65536]

\* the inverse, used to build the streams the printer sends
WriteUInt32LE(n) ==
    <<n % 256, (n \div 256) % 256, (n \div 65536) % 256, (n \div 16777216) % 256>>

\* a 16-byte header: length, then 12 reserved bytes
StreamHeader(len, fill) ==
    WriteUInt32LE(len) \o [i \in 1..(HeaderSize - 4) |-> fill]

GoodPayload == <<255, 216, 255, 224, 255, 217>>
GoodPayload2 == <<255, 216, 255, 224, 7, 255, 217>>
BadEndPayload == <<255, 216, 255, 224, 255, 216>>
BadStartPayload == <<255, 216, 255, 225, 9, 255, 217>>
Trailing == <<1, 2, 3>>

GoodUnit == StreamHeader(Len(GoodPayload), 0) \o GoodPayload
GoodUnit2 == StreamHeader(Len(GoodPayload2), 170) \o GoodPayload2
BadEndUnit == StreamHeader(Len(BadEndPayload), 0) \o BadEndPayload
BadStartUnit == StreamHeader(Len(BadStartPayload), 5) \o BadStartPayload
ZeroHeader == StreamHeader(0, 0)
HugeHeader == StreamHeader(MaxPayloadSize + 1, 0)
LimitHeader == StreamHeader(MaxPayloadSize, 0)

\* what the printer sends on a connection after the authentication record
ValidStreams == {GoodUnit, GoodUnit \o Trailing, GoodUnit2 \o GoodUnit}
BadHeaderStreams == {ZeroHeader \o GoodUnit, HugeHeader \o GoodUnit2}
BadFrameStreams == {BadEndUnit \o GoodUnit \o Trailing, BadStartUnit \o GoodUnit2}
SilentStreams == {<< >>, BadEndUnit, LimitHeader \o GoodPayload}
Streams == ValidStreams \cup BadHeaderStreams \cup BadFrameStreams \cup SilentStreams

\* the streams and the chunk sizes of the runs that explore the whole session
SessionStreams == {GoodUnit, BadEndUnit, << >>}
SessionChunks == {22}

Sockets == 1..MaxConnects
Downloads == 1..MaxDownloads
Presses == 1..MaxPresses

\* a string argument that may be missing: undefined, or its characters
Undefined == [defined |-> FALSE, chars |-> << >>]
Str(chars) == [defined |-> TRUE, chars |-> chars]
\* !v
Falsy(v) == ~v.defined \/ v.chars = << >>

\* String(v)
String(v) ==
    IF v.defined THEN v.chars ELSE <<117, 110, 100, 101, 102, 105, 110, 101, 100>>

HostChars == <<49, 48, 46, 48, 46, 48, 46, 55>>
CodeChars == <<49, 50, 51, 52, 53, 54, 55, 56>>
\* 'bblp'
DefaultUsername == <<98, 98, 108, 112>>
\* usernames and access codes of every length tried
NameOfLength(n) == [i \in 1..n |-> 97 + (i % 26)]
CodeOfLength(n) == [i \in 1..n |-> 48 + (i % 10)]
NameLengths == 0..MaxNameLength
CodeLengths == {0, 8, 31, 32, 33}

\* --------------------------------------------------------- _buildAuthData
AuthSize == 80
FieldSize == 32

\* Buffer.from(str, 'ascii'): one byte per character, its low 8 bits
Ascii(chars) == [i \in 1..Len(chars) |-> chars[i] % 256]

\* source.copy(buf, offset); offset += source.length
\* (copy writes the bytes that fit into buf, none when offset is past its end)
CopyField(st, source) ==
    LET room == IF st.offset < Len(st.buf) THEN Len(st.buf) - st.offset ELSE 0
        n == IF Len(source) < room THEN Len(source) ELSE room
    IN [st EXCEPT !.buf = IF n = 0 THEN @
                          ELSE Take(@, st.offset) \o Take(source, n)
                               \o Drop(@, st.offset + n),
                  !.offset = @ + Len(source)]

\* for (i = length; i < 32; i++) buf.writeUInt8(0, offset++)
\* (writeUInt8 throws a RangeError when offset is past the end of buf)
PadField(st, length) ==
    IF length >= FieldSize THEN st
    ELSE IF st.offset + (FieldSize - length) > Len(st.buf)
    THEN [st EXCEPT !.ok = FALSE]
    ELSE [st EXCEPT !.buf = Take(@, st.offset) \o [i \in 1..(FieldSize - length) |-> 0]
                            \o Drop(@, st.offset + (FieldSize - length)),
                    !.offset = @ + (FieldSize - length)]

\* the record, or ok = FALSE when building it throws
BuildAuthData(user, code) ==
    LET header == [buf |-> WriteUInt32LE(64) \o WriteUInt32LE(12288)
                           \o WriteUInt32LE(0) \o WriteUInt32LE(0)
                           \o [i \in 1..(AuthSize - 16) |-> 0],
                   offset |-> 16, ok |-> TRUE]
        withUser == PadField(CopyField(header, user), Len(user))
        withCode == PadField(CopyField(withUser, code), Len(code))
    IN IF withCode.ok
       THEN [ok |-> TRUE, buf |-> withCode.buf]
       ELSE [ok |-> FALSE, buf |-> << >>]

VARIABLES
    \* fields of PrinterCameraNode
    alive, socket, reconnectTimeout, operationTimeout, currentFrameBuffer,
    expectedPayloadSize, isReceivingImage, connectAttempts, lastFrameData,
    hasResolvedOrRejected,
    \* the transport: state of every socket created, bytes it has delivered,
    \* number of 'data' events it has raised, position where the last began;
    \* the authentication record built by the last _connect
    sockState, rpos, chunks, splitAt, authData,
    \* the request: what the printer streams, options.timeoutMs, whether the
    \* caller's callbacks call stop() (captureSingleFrameFromPrinter does), the
    \* arguments of captureSingleFrameFromPrinter, whether saving throws, and
    \* what _buildAuthData returns for this username and access code
    stream, timeoutMs, callbackStops, printerIp, accessCode, username, saveThrows,
    authRecord,
    \* the promise of captureSingleFrameFromPrinter and the file it writes
    promise, promiseValue, savedFile,
    \* history
    started, connects, handshakes, resolves, rejects, result, resolvedWith,
    stoppedEvents, stopCalls, stoppedUnsettled, lateChunks, authFailures,
    \* what was still live when resolve or reject was last invoked
    atSettle,
    \* the calls of start(): how many there were, and which call's resolve and
    \* reject the operation timer, each socket's handlers and the reconnect
    \* timer close over; how often the callbacks of each call were invoked; how
    \* often the authentication record was written to each socket
    starts, timerCaller, socketCaller, reconnectCaller, invoked, authWrites,
    \* the delay the reconnect timer was last armed with, in milliseconds
    reconnectDelay,
    \* the sockets whose bytes the decoder holds (buffered, or taken as the
    \* header of the unit awaited), and those the accepted frame was built from
    bufferedFrom, frameFrom,
    \* the socket whose inactivity timeout the last step has handled, if any
    timedOut,
    \* getGcodeSettings: its arguments, the promise it returns, the BambuClient
    \* it creates, the download started for each qualifying print message, how
    \* often resolve and disconnect were called, and the time since the call
    printerGiven, gcodeTimeoutMs, gcodePromise, gcodeValue, bambu, downloads,
    gcodeResolves, disconnects, elapsed,
    \* /print: the button collector of one invocation, the entry of
    \* activeAlertClients under its interaction id (0: none), where each run of
    \* the collect handler stands, and for the client each run creates whether
    \* it was created, has its handlers registered, was disconnected, is closed
    collector, activeAlertClients, handler, created, listening, disconnected, closed

fields == <<alive, socket, reconnectTimeout, operationTimeout, currentFrameBuffer,
            expectedPayloadSize, isReceivingImage, connectAttempts, lastFrameData,
            hasResolvedOrRejected>>
transport == <<sockState, rpos, chunks, splitAt, authData>>
request == <<stream, timeoutMs, callbackStops, printerIp, accessCode, username,
             saveThrows, authRecord>>
capture == <<promise, promiseValue, savedFile>>
history == <<started, connects, handshakes, resolves, rejects, result, resolvedWith,
             stoppedEvents, stopCalls, stoppedUnsettled, lateChunks, authFailures,
             atSettle>>
callers == <<starts, timerCaller, socketCaller, reconnectCaller, invoked, authWrites,
             reconnectDelay, bufferedFrom, frameFrom, timedOut>>
camera == <<fields, transport, request, capture, history, callers>>
gcode == <<printerGiven, gcodeTimeoutMs, gcodePromise, gcodeValue, bambu, downloads,
           gcodeResolves, disconnects, elapsed>>
alerts == <<collector, activeAlertClients, handler, created, listening, disconnected,
            closed>>
vars == <<camera, gcode, alerts>>

\* the current state as a record, so that a handler is a function on records
Cam ==
    [alive |-> alive, socket |-> socket, reconnectTimeout |-> reconnectTimeout,
     operationTimeout |-> operationTimeout, currentFrameBuffer |-> currentFrameBuffer,
     expectedPayloadSize |-> expectedPayloadSize, isReceivingImage |-> isReceivingImage,
     connectAttempts |-> connectAttempts, lastFrameData |-> lastFrameData,
     hasResolvedOrRejected |-> hasResolvedOrRejected,
     sockState |-> sockState, rpos |-> rpos, chunks |-> chunks, splitAt |-> splitAt,
     authData |-> authData,
     started |-> started, connects |-> connects, handshakes |-> handshakes,
     resolves |-> resolves, rejects |-> rejects, result |-> result,
     resolvedWith |-> resolvedWith, stoppedEvents |-> stoppedEvents,
     stopCalls |-> stopCalls, stoppedUnsettled |-> stoppedUnsettled,
     lateChunks |-> lateChunks, authFailures |-> authFailures, atSettle |-> atSettle,
     promise |-> promise, promiseValue |-> promiseValue, savedFile |-> savedFile,
     starts |-> starts, timerCaller |-> timerCaller, socketCaller |-> socketCaller,
     reconnectCaller |-> reconnectCaller, invoked |-> invoked,
     authWrites |-> authWrites, reconnectDelay |-> reconnectDelay,
     bufferedFrom |-> bufferedFrom, frameFrom |-> frameFrom,
     \* set by the step that handles a socket's inactivity timeout
     timedOut |-> 0,
     \* the socket whose 'data' event is being handled
     source |-> 0,
     \* the start() call whose resolve and reject the running code closes over
     caller |-> 0]

\* (the record is evaluated once, then assigned field by field)
Commit(c) ==
    \E new \in {c} :
        /\ alive' = new.alive
        /\ socket' = new.socket
        /\ reconnectTimeout' = new.reconnectTimeout
        /\ operationTimeout' = new.operationTimeout
        /\ currentFrameBuffer' = new.currentFrameBuffer
        /\ expectedPayloadSize' = new.expectedPayloadSize
        /\ isReceivingImage' = new.isReceivingImage
        /\ connectAttempts' = new.connectAttempts
        /\ lastFrameData' = new.lastFrameData
        /\ hasResolvedOrRejected' = new.hasResolvedOrRejected
        /\ sockState' = new.sockState
        /\ rpos' = new.rpos
        /\ chunks' = new.chunks
        /\ splitAt' = new.splitAt
        /\ authData' = new.authData
        /\ started' = new.started
        /\ connects' = new.connects
        /\ handshakes' = new.handshakes
        /\ resolves' = new.resolves
        /\ rejects' = new.rejects
        /\ result' = new.result
        /\ resolvedWith' = new.resolvedWith
        /\ stoppedEvents' = new.stoppedEvents
        /\ stopCalls' = new.stopCalls
        /\ stoppedUnsettled' = new.stoppedUnsettled
        /\ lateChunks' = new.lateChunks
        /\ authFailures' = new.authFailures
        /\ atSettle' = new.atSettle
        /\ promise' = new.promise
        /\ promiseValue' = new.promiseValue
        /\ savedFile' = new.savedFile
        /\ starts' = new.starts
        /\ timerCaller' = new.timerCaller
        /\ socketCaller' = new.socketCaller
        /\ reconnectCaller' = new.reconnectCaller
        /\ invoked' = new.invoked
        /\ authWrites' = new.authWrites
        /\ reconnectDelay' = new.reconnectDelay
        /\ bufferedFrom' = new.bufferedFrom
        /\ frameFrom' = new.frameFrom
        /\ timedOut' = new.timedOut
        /\ UNCHANGED <<request, gcode, alerts>>

\* ------------------------------------------------------------ construction
\* _buildAuthData reads this.username and this.accessCode only, which are set
\* by the constructor and never change: every call returns the same record
BuiltFromFields ==
    authRecord = BuildAuthData(Ascii(username), Ascii(String(accessCode)))

\* getGcodeSettings has not been called
GcodeIdle ==
    /\ printerGiven = FALSE
    /\ gcodeTimeoutMs = 0
    /\ gcodePromise = "none"
    /\ gcodeValue = "none"
    /\ bambu = "none"
    /\ downloads = [d \in Downloads |-> "none"]
    /\ gcodeResolves = 0
    /\ disconnects = 0
    /\ elapsed = 0

\* /print has not created its button collector
AlertsIdle ==
    /\ collector = "none"
    /\ activeAlertClients = 0
    /\ handler = [h \in Presses |-> "idle"]
    /\ created = [h \in Presses |-> FALSE]
    /\ listening = [h \in Presses |-> FALSE]
    /\ disconnected = [h \in Presses |-> FALSE]
    /\ closed = [h \in Presses |-> FALSE]

NewCamera ==
    /\ GcodeIdle
    /\ AlertsIdle
    /\ alive = FALSE
    /\ socket = 0
    /\ reconnectTimeout = "null"
    /\ operationTimeout = "null"
    /\ currentFrameBuffer = << >>
    /\ expectedPayloadSize = U32(0)
    /\ isReceivingImage = FALSE
    /\ connectAttempts = 0
    /\ lastFrameData = << >>
    /\ hasResolvedOrRejected = FALSE
    /\ sockState = [s \in Sockets |-> "none"]
    /\ rpos = [s \in Sockets |-> 0]
    /\ chunks = [s \in Sockets |-> 0]
    /\ splitAt = [s \in Sockets |-> 0]
    /\ authData = [ok |-> TRUE, buf |-> << >>]
    /\ started = FALSE
    /\ connects = 0
    /\ handshakes = 0
    /\ resolves = 0
    /\ rejects = 0
    /\ result = "none"
    /\ resolvedWith = << >>
    /\ stoppedEvents = 0
    /\ stopCalls = 0
    /\ stoppedUnsettled = FALSE
    /\ lateChunks = 0
    /\ authFailures = 0
    /\ atSettle = [connection |-> FALSE, operationTimer |-> FALSE,
                   reconnectTimer |-> FALSE]
    /\ promise = "none"
    /\ promiseValue = "none"
    /\ savedFile = << >>
    /\ starts = 0
    /\ timerCaller = 0
    /\ socketCaller = [s \in Sockets |-> 0]
    /\ reconnectCaller = 0
    /\ invoked = [g \in 1..MaxStarts |-> 0]
    /\ authWrites = [s \in Sockets |-> 0]
    /\ reconnectDelay = 0
    /\ bufferedFrom = {}
    /\ frameFrom = {}
    /\ timedOut = 0

\* a camera constructed and used directly, for a printer at HostChars
Constructed ==
    /\ NewCamera
    /\ timeoutMs \in {0, 30000}
    /\ callbackStops \in BOOLEAN
    /\ printerIp = Str(HostChars)
    /\ accessCode = Str(CodeChars)
    /\ username = DefaultUsername
    /\ saveThrows = FALSE
    /\ BuiltFromFields

Init == Constructed /\ stream \in SessionStreams

\* ------------------------------------------------------------------ stop()
\* socket.destroy(): idempotent, 'close' follows later
Destroy(c, s) ==
    IF s # 0 /\ c.sockState[s] \in {"connecting", "open"}
    THEN [c EXCEPT !.sockState[s] = "closing"]
    ELSE c

\* variant: the reconnect timer is left pending
StopKeepsReconnect(c) ==
    LET c1 == [c EXCEPT !.alive = FALSE,
                        !.operationTimeout = "null"]
        c2 == IF c1.socket # 0
              THEN [Destroy(c1, c1.socket) EXCEPT !.socket = 0]
              ELSE c1
    IN [c2 EXCEPT !.stoppedEvents = @ + 1]

Stop(c) ==
    LET c1 == [c EXCEPT !.alive = FALSE,
                        !.operationTimeout = "null",
                        !.reconnectTimeout = "null",
                        !.reconnectCaller = 0]
        c2 == IF c1.socket # 0
              THEN [Destroy(c1, c1.socket) EXCEPT !.socket = 0]
              ELSE c1
    IN [c2 EXCEPT !.stoppedEvents = @ + 1]

\* resolve or reject of the promise: a settled promise stays as it is
SettlePromise(c, state, value) ==
    IF c.promise = "pending"
    THEN [c EXCEPT !.promise = state, !.promiseValue = value]
    ELSE c

\* the try block of the resolve callback: write the file, resolve with its path
SaveFrame(c, frame) ==
    IF saveThrows
    THEN SettlePromise(c, "rejected", "SaveFailed")
    ELSE SettlePromise([c EXCEPT !.savedFile = frame], "fulfilled", "fullImagePath")

\* the session as the callback finds it: is its connection live, are its
\* timers pending
Live(c) ==
    [connection |-> c.socket # 0 /\ c.sockState[c.socket] \in {"connecting", "open"},
     operationTimer |-> c.operationTimeout = "pending",
     reconnectTimer |-> c.reconnectTimeout = "pending"]

\* the caller's callbacks; those of captureSingleFrameFromPrinter save the
\* frame, settle the promise and call stop()
Resolve(c, frame) ==
    LET c1 == [c EXCEPT !.resolves = @ + 1, !.result = "Resolved",
                        !.resolvedWith = frame, !.atSettle = Live(c),
                        !.invoked[c.caller] = @ + 1]
    IN IF callbackStops THEN Stop(SaveFrame(c1, frame)) ELSE c1

Reject(c, kind) ==
    LET c1 == [c EXCEPT !.rejects = @ + 1, !.result = kind, !.atSettle = Live(c),
                        !.invoked[c.caller] = @ + 1]
    IN IF callbackStops THEN SettlePromise(Stop(c1), "rejected", kind) ELSE c1

\* --------------------------------------------------------------- _connect
\* _buildAuthData throws: the exception leaves _connect before tls.connect
Connect(c) ==
    IF ~c.alive
    THEN IF ~c.hasResolvedOrRejected
         THEN Reject([c EXCEPT !.hasResolvedOrRejected = TRUE], "Aborted")
         ELSE c
    ELSE LET s == c.connects + 1
             built == authRecord
         IN IF ~built.ok
            THEN [c EXCEPT !.connectAttempts = @ + 1,
                           !.authData = built]
            ELSE [c EXCEPT !.connectAttempts = @ + 1,
                           !.authData = built,
                           !.connects = s,
                           !.socket = s,
                           !.sockState[s] = "connecting",
                           !.rpos[s] = 0,
                           !.socketCaller[s] = c.caller]

\* ------------------------------------------------------ _scheduleReconnect
\* variant: the next attempt is made at once, without a timer
ScheduleReconnectImmediate(c) ==
    IF ~c.alive \/ c.hasResolvedOrRejected THEN c
    ELSE IF c.connectAttempts > MaxRetryAttempts
    THEN IF ~c.hasResolvedOrRejected
         THEN Reject(Stop([c EXCEPT !.hasResolvedOrRejected = TRUE]),
                     "ConnectExhausted")
         ELSE c
    ELSE IF c.connects < MaxConnects THEN Connect(c) ELSE c

\* variant: one more retry is allowed
ScheduleReconnectOneMore(c) ==
    IF ~c.alive \/ c.hasResolvedOrRejected THEN c
    ELSE IF c.connectAttempts > MaxRetryAttempts + 1
    THEN IF ~c.hasResolvedOrRejected
         THEN Reject(Stop([c EXCEPT !.hasResolvedOrRejected = TRUE]),
                     "ConnectExhausted")
         ELSE c
    ELSE [c EXCEPT !.reconnectTimeout = "pending",
                   !.reconnectCaller = c.caller,
                   !.reconnectDelay = ReconnectDelayMs]

ScheduleReconnect(c) ==
    IF ~c.alive \/ c.hasResolvedOrRejected THEN c
    ELSE IF c.connectAttempts > MaxRetryAttempts
    THEN IF ~c.hasResolvedOrRejected
         THEN Reject(Stop([c EXCEPT !.hasResolvedOrRejected = TRUE]),
                     "ConnectExhausted")
         ELSE c
    ELSE [c EXCEPT !.reconnectTimeout = "pending",
                   !.reconnectCaller = c.caller,
                   !.reconnectDelay = ReconnectDelayMs]

\* ----------------------------------------------------- socket.on('data')
StartsWith(b, m) == Len(b) >= Len(m) /\ Take(b, Len(m)) = m
EndsWith(b, m) == Len(b) >= Len(m) /\ Drop(b, Len(b) - Len(m)) = m

\* variant: every non-empty payload passes
ValidFrameNonEmpty(imageData) == Len(imageData) > 0

\* variant: only the start marker is validated
ValidFrameStartOnly(imageData) ==
    /\ Len(imageData) > 0
    /\ StartsWith(imageData, JPEG_START_MARKER)

\* the marker validation of a complete payload
ValidFrame(imageData) ==
    /\ Len(imageData) > 0
    /\ StartsWith(imageData, JPEG_START_MARKER)
    /\ EndsWith(imageData, JPEG_END_MARKER)

\* variant: only a declared size of 0 is refused
InvalidSizeZeroOnly(size) == U32IsZero(size)

\* the sanity check of the declared payload size
InvalidSize(size) == U32IsZero(size) \/ U32Greater(size, MaxPayloadSize)

\* header branch, at least 16 bytes buffered
ReadHeader(c) ==
    LET size == ReadUInt32LE(c.currentFrameBuffer)
    IN IF InvalidSize(size)
       THEN [c EXCEPT !.expectedPayloadSize = size,
                      !.isReceivingImage = FALSE,
                      !.currentFrameBuffer = << >>]
       ELSE [c EXCEPT !.expectedPayloadSize = size,
                      !.isReceivingImage = TRUE,
                      !.currentFrameBuffer = Drop(@, HeaderSize)]

\* a valid frame: settle with it, then stop
AcceptFrame(c, imageData) ==
    LET c1 == [c EXCEPT !.lastFrameData = imageData,
                        !.frameFrom = c.bufferedFrom]
        c2 == IF ~c1.hasResolvedOrRejected
              THEN Resolve([c1 EXCEPT !.hasResolvedOrRejected = TRUE,
                                      !.operationTimeout =
                                          IF @ = "null" THEN "null" ELSE "cleared"],
                           imageData)
              ELSE c1
    IN Stop(c2)

\* variant: the payload is not removed from the buffer
TakePayloadKeepsBytes(c) ==
    [c EXCEPT !.isReceivingImage = FALSE]

\* payload branch, the whole payload buffered: slice it off the buffer
TakePayload(c) ==
    [c EXCEPT !.currentFrameBuffer = Drop(@, c.expectedPayloadSize.lo),
              !.isReceivingImage = FALSE]

RECURSIVE Drain(_)
Drain(c) ==
    IF ~(Len(c.currentFrameBuffer) > 0 /\ c.alive /\ ~c.hasResolvedOrRejected)
    THEN c
    ELSE IF ~c.isReceivingImage /\ Len(c.currentFrameBuffer) < HeaderSize
    THEN c
    ELSE LET h == IF ~c.isReceivingImage THEN ReadHeader(c) ELSE c
         IN IF ~h.isReceivingImage
            THEN Drain(h)
            ELSE IF ~LenAtLeast(Len(h.currentFrameBuffer), h.expectedPayloadSize)
            THEN h
            ELSE LET imageData == Take(h.currentFrameBuffer, h.expectedPayloadSize.lo)
                     p == TakePayload(h)
                 IN IF ValidFrame(imageData)
                    THEN AcceptFrame(p, imageData)
                    ELSE Drain([p EXCEPT !.expectedPayloadSize = U32(0)])

\* whose bytes the decoder holds once the handler has run: nobody's when it
\* waits for a header with nothing buffered
Retained(c) ==
    IF ~c.isReceivingImage /\ c.currentFrameBuffer = << >>
    THEN [c EXCEPT !.bufferedFrom = {}]
    ELSE c

\* variant: the handler does not look at alive and hasResolvedOrRejected
OnDataUnguarded(c, data) ==
    Retained(Drain([c EXCEPT !.currentFrameBuffer = @ \o data,
                             !.bufferedFrom = @ \cup {c.source}]))

\* variant: the chunk replaces the buffer instead of being appended to it
OnDataNoAccumulate(c, data) ==
    IF ~c.alive \/ c.hasResolvedOrRejected
    THEN c
    ELSE Retained(Drain([c EXCEPT !.currentFrameBuffer = data,
                                  !.bufferedFrom = {c.source}]))

OnData(c, data) ==
    IF ~c.alive \/ c.hasResolvedOrRejected
    THEN c
    ELSE Retained(Drain([c EXCEPT !.currentFrameBuffer = @ \o data,
                                  !.bufferedFrom = @ \cup {c.source}]))

\* ---------------------------------------------------- socket.on('error')
\* variant: an error on a live session is surfaced instead of retried
OnErrorNoReconnect(c, code) ==
    IF c.hasResolvedOrRejected /\ code \in {"ECONNRESET", "ERR_STREAM_DESTROYED"}
    THEN c
    ELSE LET c1 == Destroy(c, c.socket)
         IN IF ~c1.hasResolvedOrRejected
            THEN Reject([c1 EXCEPT !.hasResolvedOrRejected = TRUE], "SocketError")
            ELSE c1

OnError(c, code) ==
    IF c.hasResolvedOrRejected /\ code \in {"ECONNRESET", "ERR_STREAM_DESTROYED"}
    THEN c
    ELSE LET c1 == Destroy(c, c.socket)
         IN IF c1.alive /\ ~c1.hasResolvedOrRejected
            THEN ScheduleReconnect(c1)
            ELSE IF ~c1.hasResolvedOrRejected
            THEN Reject([c1 EXCEPT !.hasResolvedOrRejected = TRUE], "SocketError")
            ELSE c1

\* ---------------------------------------------------- socket.on('close')
\* variant: the rejecting branch does not look at hasResolvedOrRejected
OnCloseUnguarded(c, hadError) ==
    IF c.alive /\ ~c.hasResolvedOrRejected
    THEN ScheduleReconnect(c)
    ELSE IF ~c.alive /\ hadError
    THEN Reject([c EXCEPT !.hasResolvedOrRejected = TRUE], "ClosedWithError")
    ELSE c

OnClose(c, hadError) ==
    IF c.alive /\ ~c.hasResolvedOrRejected
    THEN ScheduleReconnect(c)
    ELSE IF ~c.alive /\ ~c.hasResolvedOrRejected /\ hadError
    THEN Reject([c EXCEPT !.hasResolvedOrRejected = TRUE], "ClosedWithError")
    ELSE c

\* -------------------------------------------------- socket.on('timeout')
\* variant: the timeout gives the operation up
OnSocketTimeoutSettles(c) ==
    IF ~c.hasResolvedOrRejected
    THEN Reject(Stop([c EXCEPT !.hasResolvedOrRejected = TRUE]), "SocketTimeout")
    ELSE Destroy(c, c.socket)

OnSocketTimeout(c) == Destroy(c, c.socket)

\* -------------------------------------- the tls.connect callback (handshake)
\* this.socket.write throws when this.socket is null; the resets follow it
OnSecureConnect(c) ==
    IF c.socket = 0
    THEN c
    ELSE [c EXCEPT !.authWrites[c.socket] = @ + 1,
                   !.connectAttempts = 0,
                   !.currentFrameBuffer = << >>,
                   !.isReceivingImage = FALSE,
                   !.expectedPayloadSize = U32(0),
                   !.bufferedFrom = {}]

\* --------------------------------------- the overall operation timer fires
\* variant: rejects without the cleanup of stop()
OnOperationTimeoutNoCleanup(c) ==
    IF ~c.hasResolvedOrRejected
    THEN Reject([c EXCEPT !.hasResolvedOrRejected = TRUE], "OperationTimeout")
    ELSE c

OnOperationTimeout(c) ==
    IF ~c.hasResolvedOrRejected
    THEN Reject(Stop([c EXCEPT !.hasResolvedOrRejected = TRUE]), "OperationTimeout")
    ELSE c

\* ----------------------------------------------------------------- start()
\* variant: the overall operation timer is never armed
StartSessionNoTimer(c) ==
    IF c.alive
    THEN IF ~c.hasResolvedOrRejected
         THEN Reject([c EXCEPT !.hasResolvedOrRejected = TRUE], "AlreadyInProgress")
         ELSE c
    ELSE Connect([c EXCEPT !.alive = TRUE,
                           !.hasResolvedOrRejected = FALSE])

StartSession(c) ==
    IF c.alive
    THEN IF ~c.hasResolvedOrRejected
         THEN Reject([c EXCEPT !.hasResolvedOrRejected = TRUE], "AlreadyInProgress")
         ELSE c
    ELSE Connect([c EXCEPT !.alive = TRUE,
                           !.hasResolvedOrRejected = FALSE,
                           !.operationTimeout =
                               IF timeoutMs > 0 THEN "pending" ELSE @,
                           !.timerCaller =
                               IF timeoutMs > 0 THEN c.caller ELSE @])

\* ================================================================= actions
Start ==
    /\ ~started
    /\ Commit(StartSession([Cam EXCEPT !.started = TRUE, !.starts = 1,
                                      !.caller = 1]))

\* start() called again on the same object, with a resolve and reject pair of
\* its own
Restart ==
    /\ started
    /\ starts < MaxStarts
    /\ alive \/ connects < MaxConnects
    /\ Commit(StartSession([Cam EXCEPT !.starts = @ + 1, !.caller = starts + 1]))

\* variant: only the host argument is checked
CaptureChecksHostOnly ==
    /\ ~started
    /\ promise = "none"
    /\ callbackStops
    /\ IF Falsy(printerIp)
       THEN Commit([Cam EXCEPT !.promise = "rejected",
                               !.promiseValue = "MissingCredential"])
       ELSE LET c == StartSession([Cam EXCEPT !.started = TRUE, !.starts = 1,
                                              !.caller = 1,
                                              !.promise = "pending"])
            IN Commit(IF c.authData.ok THEN c
                      ELSE SettlePromise(c, "rejected", "RangeError"))

\* captureSingleFrameFromPrinter(printerIp, accessCode, options); an exception
\* thrown by start() inside the promise executor rejects the promise
Capture ==
    /\ ~started
    /\ promise = "none"
    /\ callbackStops
    /\ IF Falsy(printerIp) \/ Falsy(accessCode)
       THEN Commit([Cam EXCEPT !.promise = "rejected",
                               !.promiseValue = "MissingCredential"])
       ELSE LET c == StartSession([Cam EXCEPT !.started = TRUE, !.starts = 1,
                                              !.caller = 1,
                                              !.promise = "pending"])
            IN Commit(IF c.authData.ok THEN c
                      ELSE SettlePromise(c, "rejected", "RangeError"))

ExternalStop ==
    /\ stopCalls < MaxStopCalls
    /\ Commit(Stop([Cam EXCEPT !.stopCalls = @ + 1,
                               !.stoppedUnsettled =
                                   @ \/ (started /\ ~hasResolvedOrRejected)]))

OperationTimeoutFire ==
    /\ operationTimeout = "pending"
    /\ Commit(OnOperationTimeout([Cam EXCEPT !.operationTimeout = "fired",
                                            !.caller = timerCaller]))

ReconnectFire ==
    /\ reconnectTimeout = "pending"
    /\ connects < MaxConnects
    /\ Commit(Connect([Cam EXCEPT !.reconnectTimeout = "fired",
                                 !.reconnectCaller = 0,
                                 !.caller = reconnectCaller]))

Handshake(s) ==
    /\ sockState[s] = "connecting"
    /\ Commit(OnSecureConnect([Cam EXCEPT !.sockState[s] = "open",
                                          !.handshakes = @ + 1,
                                          !.caller = socketCaller[s]]))

Data(s, n) ==
    /\ sockState[s] = "open"
    /\ rpos[s] + n <= Len(stream)
    /\ Commit(OnData([Cam EXCEPT !.rpos[s] = @ + n, !.chunks[s] = @ + 1,
                                 !.splitAt[s] = rpos[s],
                                 !.caller = socketCaller[s],
                                 !.source = s],
                     SubSeq(stream, rpos[s] + 1, rpos[s] + n)))

\* a 'data' event of a socket the session has destroyed: bytes the transport
\* had received, or the first n bytes of the stream delivered again
LateData(s, n) ==
    /\ sockState[s] = "closing"
    /\ ~alive
    /\ lateChunks < MaxLateChunks
    /\ Commit(OnData([Cam EXCEPT !.lateChunks = @ + 1,
                                 !.caller = socketCaller[s],
                                 !.source = s], Take(stream, n)))

SocketFail(s) ==
    /\ sockState[s] \in {"connecting", "open"}
    /\ Commit([Cam EXCEPT !.sockState[s] = "failing"])

\* the write of the authentication record (line 128) fails on the wire: the
\* socket will emit 'error', then 'close'
AuthWriteFail(s) ==
    /\ sockState[s] = "open"
    /\ chunks[s] = 0
    /\ Commit([Cam EXCEPT !.sockState[s] = "writefailing",
                          !.authFailures = @ + 1])

EmitError(s, code) ==
    /\ sockState[s] \in {"failing", "writefailing"}
    /\ Commit(OnError([Cam EXCEPT !.sockState[s] = "errored",
                                 !.caller = socketCaller[s]], code))

RemoteEnd(s) ==
    /\ sockState[s] \in {"connecting", "open"}
    /\ Commit([Cam EXCEPT !.sockState[s] = "closing"])

EmitClose(s) ==
    /\ sockState[s] \in {"errored", "closing"}
    /\ Commit(OnClose([Cam EXCEPT !.sockState[s] = "closed", !.rpos[s] = 0,
                                !.chunks[s] = 0, !.splitAt[s] = 0,
                                !.caller = socketCaller[s]],
                      sockState[s] = "errored"))

SocketTimeout(s) ==
    /\ sockState[s] \in {"connecting", "open"}
    /\ Commit(OnSocketTimeout([Cam EXCEPT !.timedOut = s,
                                          !.caller = socketCaller[s]]))

ErrorCodes == {"ECONNRESET", "ETIMEDOUT"}

Next ==
    \/ Start
    \/ ExternalStop
    \/ OperationTimeoutFire
    \/ connects < MaxSessionConnects /\ ReconnectFire
    \/ \E s \in Sockets : Handshake(s)
    \/ \E s \in Sockets : \E n \in SessionChunks : Data(s, n)
    \/ \E s \in Sockets : SocketFail(s)
    \/ \E s \in Sockets : \E code \in ErrorCodes : EmitError(s, code)
    \/ \E s \in Sockets : RemoteEnd(s)
    \/ \E s \in Sockets : EmitClose(s)
    \/ \E s \in Sockets : SocketTimeout(s)

Spec == Init /\ [][Next]_vars

\* One session object started more than once: start() while a call is in
\* flight, and start() again after stop() or after a settlement.
InitRestart == Constructed /\ stream = GoodUnit /\ timeoutMs > 0

NextRestart ==
    \/ Start
    \/ Restart
    \/ ExternalStop
    \/ OperationTimeoutFire
    \/ connects < MaxSessionConnects /\ ReconnectFire
    \/ \E s \in Sockets : Handshake(s)
    \/ \E s \in Sockets : \E n \in SessionChunks : Data(s, n)
    \/ \E s \in Sockets : SocketFail(s)
    \/ \E s \in Sockets : \E code \in ErrorCodes : EmitError(s, code)
    \/ \E s \in Sockets : RemoteEnd(s)
    \/ \E s \in Sockets : EmitClose(s)

SpecRestart == InitRestart /\ [][NextRestart]_vars

\* Connections that fail in the middle of a unit: the unit arrives in two
\* chunks, and a connection can close or fail between them.
PartChunks == {10, 12}

InitParts == Constructed /\ stream = GoodUnit /\ timeoutMs > 0 /\ ~callbackStops

NextParts ==
    \/ Start
    \/ connects < MaxSessionConnects /\ ReconnectFire
    \/ \E s \in Sockets : Handshake(s)
    \/ \E s \in Sockets : \E n \in PartChunks : Data(s, n)
    \/ \E s \in Sockets : SocketFail(s)
    \/ \E s \in Sockets : \E code \in ErrorCodes : EmitError(s, code)
    \/ \E s \in Sockets : RemoteEnd(s)
    \/ \E s \in Sockets : EmitClose(s)

SpecParts == InitParts /\ [][NextParts]_vars

\* ====================================================== getGcodeSettings
\* the time one clock tick stands for, and the timeouts the callers pass
TickMs == 30000
GcodeTimeouts == {60000, 90000}

\* cleanupAndResolve(value): disconnect the client, resolve the promise; a
\* promise that is settled stays as it is
CleanupAndResolve(value) ==
    /\ disconnects' = IF bambu # "none" THEN disconnects + 1 ELSE disconnects
    /\ bambu' = IF bambu # "none" THEN "disconnected" ELSE bambu
    /\ gcodeResolves' = gcodeResolves + 1
    /\ gcodePromise' = "resolved"
    /\ gcodeValue' = IF gcodePromise = "pending" THEN value ELSE gcodeValue

\* getGcodeSettings(settingsToQuery, timeoutMs, printer): the executor creates
\* the client from the fields of printer, registers the handlers and awaits
\* connect(); with printer undefined, reading printer.PRINTER_IP throws inside
\* the async executor and the promise is left pending; timeoutMs is not used
GetGcodeSettings(given, ms) ==
    /\ gcodePromise = "none"
    /\ printerGiven' = given
    /\ gcodeTimeoutMs' = ms
    /\ gcodePromise' = "pending"
    /\ bambu' = IF given THEN "connecting" ELSE "none"
    /\ UNCHANGED <<gcodeValue, downloads, gcodeResolves, disconnects, elapsed, camera, alerts>>

\* await bambu.connect() returns
Connected ==
    /\ bambu = "connecting"
    /\ bambu' = "connected"
    /\ UNCHANGED <<printerGiven, gcodeTimeoutMs, gcodePromise, gcodeValue, downloads,
                   gcodeResolves, disconnects, elapsed, camera, alerts>>

\* await bambu.connect() throws: the catch block resolves with null
ConnectFails ==
    /\ bambu = "connecting"
    /\ CleanupAndResolve("null")
    /\ UNCHANGED <<printerGiven, gcodeTimeoutMs, downloads, elapsed, camera, alerts>>

\* the keys, msg values and gcode states of the messages the client emits
MessageKeys == {"print", "info"}
GcodeStates == {"RUNNING", "FINISH", "FAILED", "PAUSE", "IDLE"}

\* the test of the 'message' handler for starting a download
Qualifies(key, msg, subtaskIsNull, gcodeState) ==
    /\ msg = 0
    /\ ~subtaskIsNull
    /\ key = "print"
    /\ gcodeState \in {"RUNNING", "FINISH", "FAILED", "PAUSE"}

\* bambu.on('message'): a qualifying message starts downloadGCodeViaFTP, any
\* other message is dropped
OnMessage(key, msg, subtaskIsNull, gcodeState) ==
    /\ bambu = "connected"
    /\ IF Qualifies(key, msg, subtaskIsNull, gcodeState)
       THEN \E d \in Downloads :
                /\ downloads[d] = "none"
                /\ \A e \in Downloads : e < d => downloads[e] # "none"
                /\ downloads' = [downloads EXCEPT ![d] = "ftp"]
       ELSE UNCHANGED downloads
    /\ UNCHANGED <<printerGiven, gcodeTimeoutMs, gcodePromise, gcodeValue, bambu,
                   gcodeResolves, disconnects, elapsed, camera, alerts>>

\* downloadGCodeViaFTP: access, list and downloadTo succeed and the promise
\* resolves with the path, or one of them throws and it rejects; the .catch of
\* the caller only logs
FtpDone(d, ok) ==
    /\ downloads[d] = "ftp"
    /\ downloads' = [downloads EXCEPT ![d] = IF ok THEN "downloaded" ELSE "failed"]
    /\ UNCHANGED <<printerGiven, gcodeTimeoutMs, gcodePromise, gcodeValue, bambu,
                   gcodeResolves, disconnects, elapsed, camera, alerts>>

\* the .then of the download: extract the archive, read the settings, delete
\* the files, then cleanupAndResolve(extractedSettings); an exception of
\* extract or unlinkSync is caught and logged
Extracted(d, ok) ==
    /\ downloads[d] = "downloaded"
    /\ downloads' = [downloads EXCEPT ![d] = IF ok THEN "done" ELSE "failed"]
    /\ IF ok
       THEN CleanupAndResolve("settings")
       ELSE UNCHANGED <<gcodePromise, gcodeValue, bambu, gcodeResolves, disconnects>>
    /\ UNCHANGED <<printerGiven, gcodeTimeoutMs, elapsed, camera, alerts>>

\* time passes
Tick ==
    /\ gcodePromise # "none"
    /\ elapsed < MaxTicks * TickMs
    /\ elapsed' = elapsed + TickMs
    /\ UNCHANGED <<printerGiven, gcodeTimeoutMs, gcodePromise, gcodeValue, bambu,
                   downloads, gcodeResolves, disconnects, camera, alerts>>

InitGcode == Constructed /\ stream = << >> /\ timeoutMs = 30000 /\ ~callbackStops

NextGcode ==
    \/ \E given \in BOOLEAN : \E ms \in GcodeTimeouts : GetGcodeSettings(given, ms)
    \/ Connected
    \/ ConnectFails
    \/ \E key \in MessageKeys : \E msg \in {0, 1} : \E subtaskIsNull \in BOOLEAN :
         \E gcodeState \in GcodeStates : OnMessage(key, msg, subtaskIsNull, gcodeState)
    \/ \E d \in Downloads : \E ok \in BOOLEAN : FtpDone(d, ok)
    \/ \E d \in Downloads : \E ok \in BOOLEAN : Extracted(d, ok)
    \/ Tick

SpecGcode == InitGcode /\ [][NextGcode]_vars

\* ========================================================= /print alerts
\* Run h of the collect handler creates client h.

\* activeAlertClients.get(id) is a client that is not closed
Registered == activeAlertClients # 0 /\ ~closed[activeAlertClients]

\* the client stored under the interaction id, if any, is disconnected and
\* the entry deleted
DisconnectStored ==
    IF activeAlertClients # 0
    THEN /\ disconnected' = [disconnected EXCEPT ![activeAlertClients] = TRUE]
         /\ activeAlertClients' = 0
    ELSE UNCHANGED <<disconnected, activeAlertClients>>

\* sentMessage.createMessageComponentCollector
CreateCollector ==
    /\ collector = "none"
    /\ collector' = "collecting"
    /\ UNCHANGED <<activeAlertClients, handler, created, listening, disconnected, closed,
                   camera, gcode>>

\* collector.on('collect'), up to its first await: with a client registered
\* it replies that an alert is active, otherwise it awaits deferUpdate()
Collect(h) ==
    /\ collector = "collecting"
    /\ handler[h] = "idle"
    /\ \A k \in Presses : k < h => handler[k] # "idle"
    /\ handler' = [handler EXCEPT ![h] = IF Registered THEN "replying" ELSE "deferring"]
    /\ UNCHANGED <<collector, activeAlertClients, created, listening, disconnected, closed,
                   camera, gcode>>

\* the reply of the early return has been sent, or has failed
ReplyDone(h) ==
    /\ handler[h] = "replying"
    /\ handler' = [handler EXCEPT ![h] = "done"]
    /\ UNCHANGED <<collector, activeAlertClients, created, listening, disconnected, closed,
                   camera, gcode>>

\* await deferUpdate() returns: the client is created and stored, and the
\* handler awaits followUp(); or it throws, into the catch block
DeferUpdateDone(h, ok) ==
    /\ handler[h] = "deferring"
    /\ IF ok
       THEN /\ created' = [created EXCEPT ![h] = TRUE]
            /\ activeAlertClients' = h
            /\ handler' = [handler EXCEPT ![h] = "arming"]
       ELSE /\ handler' = [handler EXCEPT ![h] = "catch"]
            /\ UNCHANGED <<created, activeAlertClients>>
    /\ UNCHANGED <<collector, listening, disconnected, closed, camera, gcode>>

\* await followUp() returns: the handlers of the client are registered and
\* connect() is called; or it throws, into the catch block
FollowUpDone(h, ok) ==
    /\ handler[h] = "arming"
    /\ IF ok
       THEN /\ listening' = [listening EXCEPT ![h] = TRUE]
            /\ handler' = [handler EXCEPT ![h] = "connecting"]
       ELSE /\ handler' = [handler EXCEPT ![h] = "catch"]
            /\ UNCHANGED listening
    /\ UNCHANGED <<collector, activeAlertClients, created, disconnected, closed, camera, gcode>>

\* await connect() returns, or throws into the catch block
ConnectDone(h, ok) ==
    /\ handler[h] = "connecting"
    /\ handler' = [handler EXCEPT ![h] = IF ok THEN "done" ELSE "catch"]
    /\ UNCHANGED <<collector, activeAlertClients, created, listening, disconnected, closed,
                   camera, gcode>>

\* the catch block, after its awaited reply or followUp: the stored client
\* is disconnected and its entry deleted
CollectErr(h) ==
    /\ handler[h] = "catch"
    /\ handler' = [handler EXCEPT ![h] = "done"]
    /\ DisconnectStored
    /\ UNCHANGED <<collector, created, listening, closed, camera, gcode>>

\* bambuClientForAlert.on('error') of client c
ClientError(c) ==
    /\ listening[c]
    /\ DisconnectStored
    /\ UNCHANGED <<collector, handler, created, listening, closed, camera, gcode>>

\* the connection of client c is closed: its closed flag is set; the 'closed'
\* handler does nothing
ClientClosed(c) ==
    /\ created[c]
    /\ ~closed[c]
    /\ closed' = [closed EXCEPT ![c] = TRUE]
    /\ UNCHANGED <<collector, activeAlertClients, handler, created, listening, disconnected,
                   camera, gcode>>

\* collector.on('end')
CollectorEnd ==
    /\ collector = "collecting"
    /\ collector' = "ended"
    /\ DisconnectStored
    /\ UNCHANGED <<handler, created, listening, closed, camera, gcode>>

InitAlerts == Constructed /\ stream = << >> /\ timeoutMs = 30000 /\ ~callbackStops

NextAlerts ==
    \/ CreateCollector
    \/ \E h \in Presses : Collect(h)
    \/ \E h \in Presses : ReplyDone(h)
    \/ \E h \in Presses : \E ok \in BOOLEAN : DeferUpdateDone(h, ok)
    \/ \E h \in Presses : \E ok \in BOOLEAN : FollowUpDone(h, ok)
    \/ \E h \in Presses : \E ok \in BOOLEAN : ConnectDone(h, ok)
    \/ \E h \in Presses : CollectErr(h)
    \/ \E c \in Presses : ClientError(c)
    \/ \E c \in Presses : ClientClosed(c)
    \/ CollectorEnd

SpecAlerts == InitAlerts /\ [][NextAlerts]_vars

\* The decoder on one connection that stays up: every stream, every chunking.
InitDecode == Constructed /\ stream \in Streams /\ timeoutMs > 0

NextDecode ==
    \/ Start
    \/ \E s \in Sockets : Handshake(s)
    \/ \E s \in Sockets : \E n \in 1..Len(stream) : Data(s, n)

SpecDecode == InitDecode /\ [][NextDecode]_vars

\* The decoder on a transport that keeps raising 'data' events after the
\* session has accepted a frame and destroyed the connection.
InitRedeliver == Constructed /\ stream \in ValidStreams /\ timeoutMs > 0

NextRedeliver ==
    \/ Start
    \/ \E s \in Sockets : Handshake(s)
    \/ \E s \in Sockets : \E n \in 1..Len(stream) : Data(s, n)
    \/ \E s \in Sockets : \E n \in 1..Len(stream) : LateData(s, n)

SpecRedeliver == InitRedeliver /\ [][NextRedeliver]_vars

\* captureSingleFrameFromPrinter with every kind of argument; the camera is
\* local to the call, so nobody else calls start() or stop() on it.
InitCapture ==
    /\ NewCamera
    /\ stream \in SessionStreams
    /\ timeoutMs \in {0, 30000}
    /\ callbackStops = TRUE
    /\ printerIp \in {Undefined, Str(<< >>), Str(HostChars)}
    /\ accessCode \in {Undefined, Str(<< >>), Str(CodeChars)}
    /\ username \in {DefaultUsername, NameOfLength(FieldSize + 1)}
    /\ saveThrows \in BOOLEAN
    /\ BuiltFromFields

NextCapture ==
    \/ Capture
    \/ OperationTimeoutFire
    \/ connects < MaxSessionConnects /\ ReconnectFire
    \/ \E s \in Sockets : Handshake(s)
    \/ \E s \in Sockets : \E n \in SessionChunks : Data(s, n)
    \/ \E s \in Sockets : SocketFail(s)
    \/ \E s \in Sockets : \E code \in ErrorCodes : EmitError(s, code)
    \/ \E s \in Sockets : RemoteEnd(s)
    \/ \E s \in Sockets : EmitClose(s)
    \/ \E s \in Sockets : SocketTimeout(s)

SpecCapture == InitCapture /\ [][NextCapture]_vars

\* A transport on which the handshake completes and the write of the
\* authentication record may then fail; no other failure occurs.
NextAuth ==
    \/ Start
    \/ OperationTimeoutFire
    \/ connects < MaxSessionConnects /\ ReconnectFire
    \/ \E s \in Sockets : Handshake(s)
    \/ \E s \in Sockets : AuthWriteFail(s)
    \/ \E s \in Sockets : \E n \in SessionChunks : Data(s, n)
    \/ \E s \in Sockets : \E code \in ErrorCodes : EmitError(s, code)
    \/ \E s \in Sockets : EmitClose(s)

SpecAuth == Init /\ [][NextAuth]_vars

\* _buildAuthData on usernames and access codes of every length: the camera is
\* constructed with them and started, which builds the record.
InitAuthData ==
    /\ NewCamera
    /\ stream = << >>
    /\ timeoutMs = 30000
    /\ callbackStops = FALSE
    /\ printerIp = Str(HostChars)
    /\ accessCode \in {Str(CodeOfLength(n)) : n \in CodeLengths}
    /\ username \in {NameOfLength(n) : n \in NameLengths}
    /\ saveThrows = FALSE
    /\ BuiltFromFields

NextAuthData == Start

SpecAuthData == InitAuthData /\ [][NextAuthData]_vars

\* A transport on which handshakes may complete and every connection later
\* fails or is closed by the peer; the operation timer (30 s) does not fire.
NextRetry ==
    \/ Start
    \/ ReconnectFire
    \/ \E s \in Sockets : Handshake(s)
    \/ \E s \in Sockets : SocketFail(s)
    \/ \E s \in Sockets : \E code \in ErrorCodes : EmitError(s, code)
    \/ \E s \in Sockets : RemoteEnd(s)
    \/ \E s \in Sockets : EmitClose(s)

SpecRetry == Init /\ [][NextRetry]_vars

\* No external stop(); the operation timer is armed and eventually fires; the
\* transport never delivers a valid frame: each connection fails, stays
\* silent, or delivers an invalid one.
InitLive == Constructed /\ stream = BadEndUnit /\ timeoutMs > 0

NextLive ==
    \/ Start
    \/ OperationTimeoutFire
    \/ connects < MaxSessionConnects /\ ReconnectFire
    \/ \E s \in Sockets : Handshake(s)
    \/ \E s \in Sockets : \E n \in SessionChunks : Data(s, n)
    \/ \E s \in Sockets : SocketFail(s)
    \/ \E s \in Sockets : \E code \in ErrorCodes : EmitError(s, code)
    \/ \E s \in Sockets : RemoteEnd(s)
    \/ \E s \in Sockets : EmitClose(s)
    \/ \E s \in Sockets : SocketTimeout(s)

SpecLive == InitLive /\ [][NextLive]_vars /\ WF_vars(OperationTimeoutFire)

\* A transport on which no handshake ever completes: every connection fails
\* or is closed by the peer, its events are delivered, the reconnect timer
\* fires; the operation timer (30 s) outlasts the three attempts (2 x 3 s).
NextClosing ==
    \/ Start
    \/ ReconnectFire
    \/ \E s \in Sockets : SocketFail(s)
    \/ \E s \in Sockets : \E code \in ErrorCodes : EmitError(s, code)
    \/ \E s \in Sockets : RemoteEnd(s)
    \/ \E s \in Sockets : EmitClose(s)

SpecClosing == Init /\ [][NextClosing]_vars /\ WF_vars(NextClosing)

\* ================================================================== claims
Settlements == resolves + rejects

\* A stream begins with a valid unit: a header declaring 0 < L <= 15 MiB and
\* L bytes that start with FF D8 FF E0 and end with FF D9.
DeclaredLength(str) == str[1] + str[2] * 256 + str[3] * 65536
BeginsWithUnit(str) ==
    /\ Len(str) >= HeaderSize
    /\ str[4] = 0
    /\ DeclaredLength(str) > 0
    /\ DeclaredLength(str) <= MaxPayloadSize
    /\ Len(str) >= HeaderSize + DeclaredLength(str)
UnitLength(str) == HeaderSize + DeclaredLength(str)
UnitPayload(str) == SubSeq(str, HeaderSize + 1, UnitLength(str))
HasMarkers(payload) ==
    /\ Len(payload) >= 6
    /\ SubSeq(payload, 1, 4) = <<255, 216, 255, 224>>
    /\ SubSeq(payload, Len(payload) - 1, Len(payload)) = <<255, 217>>
BeginsWithValidUnit(str) == BeginsWithUnit(str) /\ HasMarkers(UnitPayload(str))
BeginsWithInvalidUnit(str) == BeginsWithUnit(str) /\ ~HasMarkers(UnitPayload(str))

\* C1: in a session started once, resolve and reject are invoked at most once
\* in total, whatever the order of socket events, timer firings and stop().
C1_SettleAtMostOnce == Settlements <= 1

\* the session has settled while a stop() was made and a socket still has
\* events to deliver
C1_Witness ==
    /\ Settlements = 1
    /\ stopCalls > 0
    /\ \E s \in Sockets : sockState[s] \in {"failing", "errored"}

\* C2: a session started with timeoutMs > 0 and never stopped externally
\* eventually settles, whatever the transport does.
C2_EventuallySettles == (started /\ timeoutMs > 0) ~> (Settlements > 0)

\* the transport connected and stayed silent until the operation timer
\* settled the session
C2_Witness ==
    /\ timeoutMs > 0
    /\ handshakes > 0
    /\ \A s \in Sockets : chunks[s] = 0
    /\ result = "OperationTimeout"

\* C3: a header declaring a valid L followed by L bytes with the JPEG markers
\* is accepted once the L bytes have arrived, as exactly one frame equal to
\* those bytes; the buffer then holds the bytes received after the frame.
C3_ExactExtraction ==
    BeginsWithValidUnit(stream) =>
        /\ rpos[1] < UnitLength(stream) => Settlements = 0
        /\ rpos[1] >= UnitLength(stream) =>
            /\ resolves = 1
            /\ rejects = 0
            /\ resolvedWith = UnitPayload(stream)
            /\ lastFrameData = UnitPayload(stream)
            /\ currentFrameBuffer = SubSeq(stream, UnitLength(stream) + 1, rpos[1])

\* a frame was accepted from a chunk that carried bytes beyond it
C3_Witness ==
    /\ BeginsWithValidUnit(stream)
    /\ resolves = 1
    /\ rpos[1] > UnitLength(stream)
    /\ currentFrameBuffer # << >>

\* the session streaming on a fresh connection, nothing buffered
Streaming ==
    [Cam EXCEPT !.alive = TRUE, !.hasResolvedOrRejected = FALSE,
                !.currentFrameBuffer = << >>, !.isReceivingImage = FALSE,
                !.expectedPayloadSize = U32(0), !.lastFrameData = << >>,
                !.resolves = 0, !.rejects = 0, !.resolvedWith = << >>,
                !.caller = 1, !.source = 1]

\* C4: a valid header+payload sequence delivered in chunks, split at any
\* position, yields the same single accepted frame as delivered whole.
C4_SplitInvariance ==
    BeginsWithValidUnit(stream) =>
        LET whole == OnData(Streaming, Take(stream, UnitLength(stream)))
        IN /\ whole.resolves = 1
           /\ rpos[1] >= UnitLength(stream) =>
                /\ resolves = whole.resolves
                /\ resolvedWith = whole.resolvedWith
                /\ lastFrameData = whole.lastFrameData
           /\ rpos[1] < UnitLength(stream) => resolves = 0

\* the frame was accepted from two chunks, split inside the 16-byte header
C4_Witness ==
    /\ BeginsWithValidUnit(stream)
    /\ resolves = 1
    /\ rpos[1] = UnitLength(stream)
    /\ chunks[1] = 2
    /\ splitAt[1] \in 1..(HeaderSize - 1)

\* A stream begins with a header declaring L = 0 or L > 15 MiB.
BeginsWithBadHeader(str) ==
    /\ Len(str) >= HeaderSize
    /\ \/ str[4] > 0
       \/ DeclaredLength(str) = 0
       \/ DeclaredLength(str) > MaxPayloadSize

\* C5: a header declaring L = 0 or L > 15 MiB is dropped alone, without an
\* error to the caller, and the 16 bytes after it are read as a fresh header,
\* also when they arrived in the same chunk: a valid unit that follows the
\* bad header is accepted once it has arrived.
C5_BadHeaderResync ==
    (BeginsWithBadHeader(stream) /\ BeginsWithValidUnit(Drop(stream, HeaderSize))) =>
        LET rest == Drop(stream, HeaderSize)
        IN /\ rejects = 0
           /\ rpos[1] >= HeaderSize + UnitLength(rest) =>
                /\ resolves = 1
                /\ resolvedWith = UnitPayload(rest)

\* C6: a complete payload failing the marker validation produces neither
\* resolve nor reject, exactly its L bytes are consumed, the decoder awaits a
\* header with the following bytes buffered, and a valid unit after it is
\* accepted.
C6_BadFrameSkipped ==
    BeginsWithInvalidUnit(stream) =>
        LET rest == Drop(stream, UnitLength(stream))
        IN /\ rejects = 0
           /\ rpos[1] < UnitLength(stream) + HeaderSize => resolves = 0
           /\ (rpos[1] >= UnitLength(stream) /\ rpos[1] < UnitLength(stream) + HeaderSize) =>
                /\ ~isReceivingImage
                /\ currentFrameBuffer = SubSeq(stream, UnitLength(stream) + 1, rpos[1])
           /\ (BeginsWithValidUnit(rest) /\ rpos[1] >= UnitLength(stream) + UnitLength(rest)) =>
                /\ resolves = 1
                /\ resolvedWith = UnitPayload(rest)

\* an invalid payload and the valid unit after it arrived in one chunk, and
\* the valid one was accepted
C6_Witness ==
    /\ BeginsWithInvalidUnit(stream)
    /\ chunks[1] = 1
    /\ resolves = 1
    /\ resolvedWith = UnitPayload(Drop(stream, UnitLength(stream)))

\* C7: when no connection of the session gets through (each fails or is closed
\* before the handshake, with an error event, a close event or both), the
\* session makes exactly 3 connection attempts, never a 4th, and then rejects
\* with the connect-exhausted failure.
C7_BoundedReconnect ==
    /\ [](connects <= MaxRetryAttempts + 1)
    /\ [](result = "ConnectExhausted" => connects = MaxRetryAttempts + 1 /\ rejects = 1)
    /\ started ~> (result = "ConnectExhausted")

\* three connections were made, each was closed, and the session has rejected
C7_Witness ==
    /\ result = "ConnectExhausted"
    /\ connects = 3
    /\ \A s \in 1..3 : sockState[s] = "closed"
    /\ handshakes = 0

\* C8: when the operation timer fires on an unsettled session, the session
\* rejects with the operation-timeout failure, the connection is destroyed,
\* no timer stays pending, and no connection attempt is made afterwards.
C8_OperationTimeout ==
    [][/\ (OperationTimeoutFire /\ ~hasResolvedOrRejected) =>
            /\ rejects' = rejects + 1
            /\ resolves' = resolves
            /\ result' = "OperationTimeout"
            /\ hasResolvedOrRejected'
            /\ socket' = 0
            /\ socket # 0 => sockState'[socket] \notin {"connecting", "open"}
            /\ reconnectTimeout' # "pending"
            /\ operationTimeout' # "pending"
       /\ result = "OperationTimeout" =>
            /\ connects' = connects
            /\ reconnectTimeout' # "pending"
            /\ Settlements' = Settlements]_vars

\* the timer fired while a connection was live: it has been destroyed and its
\* close is still to come
C8_Witness ==
    /\ result = "OperationTimeout"
    /\ rejects = 1
    /\ \E s \in Sockets : sockState[s] = "closing"
    /\ connects > 1

ErrorEventOf(s) ==
    /\ sockState[s] \in {"failing", "errored"}
    /\ sockState'[s] # sockState[s]

C10_StopAfterSettlementNoEffect ==
    [][(stopCalls' # stopCalls /\ hasResolvedOrRejected) =>
            /\ UNCHANGED <<fields, transport>>
            /\ stoppedEvents' = stoppedEvents
            /\ Settlements' = Settlements]_vars

\* C11: once a frame has been accepted no later byte is parsed: resolve is
\* invoked once, with the accepted payload; the bytes that followed the frame
\* in its chunk stay unparsed in the buffer; and a 'data' event after the
\* settlement, a redelivery of the same valid unit included, changes neither
\* the decoder state nor the result.
C11_NothingParsedAfterAccept ==
    [][/\ resolves' <= 1
       /\ resolves' # resolves =>
            /\ resolvedWith' = UnitPayload(stream)
            /\ lastFrameData' = UnitPayload(stream)
            /\ ~isReceivingImage'
            /\ currentFrameBuffer' = SubSeq(stream, UnitLength(stream) + 1, rpos'[1])
       /\ hasResolvedOrRejected =>
            UNCHANGED <<currentFrameBuffer, expectedPayloadSize, isReceivingImage,
                        lastFrameData, resolves, rejects, result, resolvedWith>>]_vars

\* a frame was accepted from a chunk that also carried a second valid unit,
\* and the transport has delivered bytes again since
C11_Witness ==
    /\ resolves = 1
    /\ lateChunks = MaxLateChunks
    /\ BeginsWithValidUnit(currentFrameBuffer)
    /\ resolvedWith = UnitPayload(stream)
\* C12: captureSingleFrameFromPrinter called with an empty or missing host or
\* access code rejects with the missing-credential failure, and no session
\* is created: no start(), no timer armed, no connection opened.
C12_MissingCredentialRejects ==
    (Falsy(printerIp) \/ Falsy(accessCode)) =>
        /\ promise \in {"none", "rejected"}
        /\ promise = "rejected" => promiseValue = "MissingCredential"
        /\ ~started
        /\ ~alive
        /\ socket = 0
        /\ connects = 0
        /\ operationTimeout = "null"
        /\ reconnectTimeout = "null"
        /\ Settlements = 0
        /\ ~ENABLED OperationTimeoutFire
        /\ promise = "none" => ENABLED Capture

\* the call was made with a host and an empty access code, and has rejected
C12_Witness ==
    /\ ~Falsy(printerIp)
    /\ accessCode = Str(<< >>)
    /\ promise = "rejected"
\* the error event of a socket whose write of the authentication record
\* failed, on a session that is alive and unsettled
AuthErrorEvent(s) ==
    /\ sockState[s] = "writefailing"
    /\ sockState'[s] = "errored"
    /\ alive
    /\ ~hasResolvedOrRejected

\* C13 as claimed: a failure to write the authentication record after the
\* handshake schedules no reconnect and is surfaced to the caller as a
\* ConnectFailed failure.
C13_AuthWriteFailureSurfaced ==
    [][\A s \in Sockets : AuthErrorEvent(s) =>
            /\ reconnectTimeout' # "pending"
            /\ rejects' = rejects + 1
            /\ result' = "ConnectFailed"]_vars

\* C13 as amended: a failure to write the authentication record reaches the
\* session as the socket's error event and is treated as any transport error:
\* the socket is destroyed and, the session being alive and unsettled, a
\* reconnect is scheduled and nothing is reported to the caller, unless more
\* than 2 attempts are counted, when the session rejects with the
\* connect-exhausted failure. No ConnectFailed failure is ever reported.
C13_AuthWriteFailureReconnects ==
    [][/\ \A s \in Sockets : AuthErrorEvent(s) =>
            /\ socket # 0 => sockState'[socket] \notin {"connecting", "open"}
            /\ IF connectAttempts > MaxRetryAttempts
               THEN /\ rejects' = rejects + 1
                    /\ result' = "ConnectExhausted"
               ELSE /\ reconnectTimeout' = "pending"
                    /\ alive'
                    /\ Settlements' = Settlements
       /\ result' # "ConnectFailed"]_vars

\* the write failed on the first connection, a reconnect was scheduled for
\* it, and the second connection has been made
C13_Witness ==
    /\ authFailures = 1
    /\ sockState[1] \in {"errored", "closed"}
    /\ connects = 2
    /\ handshakes = 1
    /\ Settlements = 0
\* a field of the record: the bytes, cut or zero-padded to 32
Padded(bytes) == [i \in 1..FieldSize |-> IF i <= Len(bytes) THEN bytes[i] ELSE 0]

\* C14: for every username and access code _buildAuthData returns 80 bytes:
\* 0x40 little-endian in bytes 0-3, 0x3000 in bytes 4-7, zeros in bytes 8-15,
\* the username zero-padded to 32 bytes in bytes 16-47, and the access code
\* zero-padded to 32 bytes in bytes 48-79.
C14_AuthRecordLayout ==
    started =>
        /\ authData.ok
        /\ Len(authData.buf) = AuthSize
        /\ SubSeq(authData.buf, 1, 4) = <<64, 0, 0, 0>>
        /\ SubSeq(authData.buf, 5, 8) = <<0, 48, 0, 0>>
        /\ SubSeq(authData.buf, 9, 16) = <<0, 0, 0, 0, 0, 0, 0, 0>>
        /\ SubSeq(authData.buf, 17, 48) = Padded(Ascii(username))
        /\ SubSeq(authData.buf, 49, 80) = Padded(Ascii(String(accessCode)))
\* C15: the promise of captureSingleFrameFromPrinter is fulfilled with the
\* path of the image only once the frame bytes are written there; it is
\* rejected when the session fails and when saving throws; and once it is
\* settled the camera session is stopped: not alive, no connection held, no
\* timer pending.
C15_CaptureSettlesStopped ==
    /\ promise = "fulfilled" =>
        /\ promiseValue = "fullImagePath"
        /\ resolves = 1
        /\ savedFile = resolvedWith
        /\ savedFile # << >>
    /\ (rejects > 0 \/ (resolves > 0 /\ saveThrows)) => promise = "rejected"
    /\ (started /\ promise \in {"fulfilled", "rejected"}) =>
        /\ ~alive
        /\ socket = 0
        /\ operationTimeout # "pending"
        /\ reconnectTimeout # "pending"
\* C16: between start() and settlement the attempt counter never decreases
\* and is never reset: each connection attempt increments it by one, and no
\* other event, a successful TLS handshake in particular, changes it.
C16_AttemptCounterMonotonic ==
    [][(started /\ ~hasResolvedOrRejected) =>
            /\ connectAttempts' >= connectAttempts
            /\ connects' # connects => connectAttempts' = connectAttempts + 1
            /\ connects' = connects => connectAttempts' = connectAttempts]_vars

\* C17: in one session, whatever mix of handshake successes, handshake
\* failures and later closes the transport produces, at most 3 connection
\* attempts (tls.connect calls) are made.
C17_AtMostThreeAttempts == connects <= 3
\* C18: for every byte sequence, headers with L = 0 or L > 15 MiB and payloads
\* failing the marker validation included, the accepted frame, if any, and the
\* decoder's final state (mode, expected length, buffered bytes) are those of
\* the sequence delivered as one chunk, however it is split into chunks.
C18_ChunkingInvariance ==
    LET whole == OnData(Streaming, stream)
    IN /\ resolves = 1 =>
            /\ whole.resolves = 1
            /\ resolvedWith = whole.resolvedWith
       /\ (handshakes > 0 /\ rpos[1] = Len(stream) /\ resolves = 0) =>
            /\ whole.resolves = 0
            /\ isReceivingImage = whole.isReceivingImage
            /\ expectedPayloadSize = whole.expectedPayloadSize
            /\ currentFrameBuffer = whole.currentFrameBuffer
\* the payload of a unit of the stream whose header declares its length,
\* which carries both markers, and which socket s has delivered completely
AcceptablePayload(s, payload) ==
    \E k \in 0..Len(stream) :
        /\ BeginsWithValidUnit(Drop(stream, k))
        /\ payload = UnitPayload(Drop(stream, k))
        /\ k + UnitLength(Drop(stream, k)) <= rpos'[s]

\* C19: resolve is invoked only by a 'data' event of an open socket, and its
\* argument is a payload of the length its header declares that passed the
\* start and end marker validation; a timer firing, a close or error event
\* or a stop() never invokes resolve.
C19_ResolveOnlyFromAcceptance ==
    [][resolves' # resolves =>
            \E s \in Sockets :
                /\ sockState[s] = "open"
                /\ chunks'[s] = chunks[s] + 1
                /\ AcceptablePayload(s, resolvedWith')]_vars

\* the first connection was lost and closed, and a frame was accepted on the
\* second
C19_Witness ==
    /\ resolves = 1
    /\ rejects = 0
    /\ connects = 2
    /\ sockState[1] = "closed"
    /\ resolvedWith = GoodPayload
\* C20: when the session invokes resolve or reject, the operation timer and
\* the reconnect timer have already been cancelled and the connection has
\* already been destroyed, on the success path as on the timeout and
\* retries-exhausted paths.
C20_CancelBeforeSettle ==
    Settlements > 0 =>
        /\ ~atSettle.operationTimer
        /\ ~atSettle.reconnectTimer
        /\ ~atSettle.connection

\* a socket the transport still holds open: not destroyed, not closed, not failed
LiveSockets == {s \in Sockets : sockState[s] \in {"connecting", "open"}}

\* the session is settled, or it was started and is stopped
Terminal == started /\ (hasResolvedOrRejected \/ ~alive)

\* C21: in every reachable state where the session is terminal (settled, or
\* stopped) there is no live connection, no pending overall operation timer
\* and no pending reconnect timer, whichever path marked the session settled.
C21_TerminalReleasesAll ==
    Terminal =>
        /\ LiveSockets = {}
        /\ operationTimeout # "pending"
        /\ reconnectTimeout # "pending"

\* the connections whose failure has reached the session: their 'error' or
\* their 'close' event was delivered
FailedSockets == {s \in Sockets : sockState[s] \in {"errored", "closed"}}

FailureEvent(s) ==
    \/ sockState[s] \in {"failing", "writefailing"} /\ sockState'[s] = "errored"
    \/ sockState[s] \in {"errored", "closing"} /\ sockState'[s] = "closed"

\* C23: when a connection closes or errors while the session is unsettled and
\* retries remain, nothing is delivered to the caller in that step, no
\* connection is opened in it, and the reconnect timer is left pending with the
\* fixed delay of 3 seconds; the attempt counter is not touched by the retry
\* decision: it is incremented by the connection attempt itself.
C23_FailureSchedulesRetry ==
    [][/\ \A s \in Sockets :
            (/\ alive /\ ~hasResolvedOrRejected
             /\ connectAttempts <= MaxRetryAttempts
             /\ FailureEvent(s))
            => /\ resolves' = resolves /\ rejects' = rejects
               /\ promise' = promise
               /\ alive' /\ ~hasResolvedOrRejected'
               /\ reconnectTimeout' = "pending"
               /\ reconnectDelay' = ReconnectDelayMs
               /\ connects' = connects
               /\ connectAttempts' = connectAttempts
       /\ connects' # connects =>
            /\ connects' = connects + 1
            /\ connectAttempts' = connectAttempts + 1]_vars

C23_Witness ==
    /\ alive /\ ~hasResolvedOrRejected
    /\ Settlements = 0
    /\ connects = 2
    /\ connectAttempts = 2
    /\ reconnectTimeout = "pending"
    /\ reconnectDelay = ReconnectDelayMs
    /\ FailedSockets = {1, 2}

\* C24: on every connection the authentication record is written exactly once,
\* after the TLS handshake of that connection and before any of its bytes
\* reaches the decoder: never on a socket still connecting, never twice, and
\* an open socket has it.
C24_AuthWrittenOncePerConnection ==
    \A s \in Sockets :
        /\ authWrites[s] <= 1
        /\ sockState[s] = "connecting" => authWrites[s] = 0
        /\ sockState[s] = "open" => authWrites[s] = 1
        /\ chunks[s] > 0 => authWrites[s] = 1

\* other contents for the 12 reserved bytes of a header
OtherReserved == WriteUInt32LE(6) \o WriteUInt32LE(6) \o WriteUInt32LE(6)

\* the stream with the reserved bytes 4-15 of each of its headers replaced;
\* the headers are those of the framing: one at the start, one after each
\* payload, one right after a header that declares L = 0 or L > 15 MiB
RECURSIVE Refill(_)
Refill(str) ==
    IF Len(str) < HeaderSize
    THEN str
    ELSE LET size == ReadUInt32LE(str)
             header == Take(str, 4) \o OtherReserved
             rest == Drop(str, HeaderSize)
         IN IF InvalidSize(size)
            THEN header \o Refill(rest)
            ELSE IF ~LenAtLeast(Len(rest), size)
            THEN header \o rest
            ELSE header \o Take(rest, size.lo) \o Refill(Drop(rest, size.lo))

\* the decoder fed the refilled stream in the chunks socket 1 has delivered
Refilled ==
    LET r == Refill(stream)
    IN IF chunks[1] = 1
       THEN OnData(Streaming, Take(r, rpos[1]))
       ELSE OnData(OnData(Streaming, Take(r, splitAt[1])),
                   SubSeq(r, splitAt[1] + 1, rpos[1]))

\* C25: the decoder does not depend on header bytes 4-15: fed a stream that
\* differs only in those bytes, in the same chunks, it is in the same mode,
\* expects the same length while a payload is awaited, has buffered as many
\* bytes and has accepted the same frame or none.
C25_ReservedBytesIgnored ==
    (handshakes > 0 /\ chunks[1] \in {1, 2}) =>
        /\ Refilled.isReceivingImage = isReceivingImage
        /\ isReceivingImage => Refilled.expectedPayloadSize = expectedPayloadSize
        /\ Len(Refilled.currentFrameBuffer) = Len(currentFrameBuffer)
        /\ Refilled.alive = alive
        /\ Refilled.hasResolvedOrRejected = hasResolvedOrRejected
        /\ Refilled.resolves = resolves
        /\ Refilled.resolvedWith = resolvedWith
        /\ Refilled.lastFrameData = lastFrameData

\* C26: after every data handler run that leaves the session live and
\* unsettled: in header mode fewer than 16 bytes are buffered; in payload mode
\* the expected length L satisfies 0 < L <= 15 MiB and fewer than L bytes are
\* buffered; so no more than 15 MiB stay buffered between two data events.
C26_DecoderStateBounded ==
    [][\A s \in Sockets :
        (chunks'[s] = chunks[s] + 1 /\ alive' /\ ~hasResolvedOrRejected') =>
            /\ ~isReceivingImage' => Len(currentFrameBuffer') < HeaderSize
            /\ isReceivingImage' =>
                /\ ~U32IsZero(expectedPayloadSize')
                /\ ~U32Greater(expectedPayloadSize', MaxPayloadSize)
                /\ ~LenAtLeast(Len(currentFrameBuffer'), expectedPayloadSize')
            /\ Len(currentFrameBuffer') < MaxPayloadSize]_vars

\* a payload of the largest length allowed is awaited, part of it buffered
C26_Witness ==
    /\ alive /\ ~hasResolvedOrRejected
    /\ chunks[1] > 0
    /\ isReceivingImage
    /\ expectedPayloadSize = U32(MaxPayloadSize)
    /\ currentFrameBuffer = GoodPayload

\* the failures of the model that are terminal kinds of the specification:
\* MissingCredential, OperationTimeout, ConnectExhausted, and PersistError
\* (the save of the frame failed); nothing in the code produces ConnectFailed
\* or DecodeError
SpecifiedKinds ==
    {"MissingCredential", "OperationTimeout", "ConnectExhausted", "SaveFailed"}

\* C27: every rejection delivered to the caller, by the session through its
\* reject callback or by captureSingleFrameFromPrinter through its promise, is
\* one of the specified terminal kinds; a raw socket error, a closed-with-error,
\* an attempt-aborted or an already-in-progress message never reaches the caller.
C27_OnlySpecifiedRejections ==
    /\ rejects > 0 => result \in SpecifiedKinds \cup {"Resolved"}
    /\ promise = "rejected" => promiseValue \in SpecifiedKinds

\* C28: start() on a session that is already alive rejects the second caller
\* only and leaves the operation in flight as it is: the session's fields, its
\* sockets and the callbacks of the earlier call are untouched, so the first
\* operation can still settle and release its connection and timers.
C28_SecondStartLeavesOperation ==
    [][(alive /\ ~hasResolvedOrRejected /\ starts' = starts + 1) =>
            /\ invoked'[starts'] = 1
            /\ \A g \in 1..starts : invoked'[g] = invoked[g]
            /\ UNCHANGED <<fields, sockState>>]_vars

\* C29: once the session object has been started again after a stop() or a
\* settlement, each resolve/reject pair is invoked at most once in total, and
\* no step uses the pair of an earlier start(): it is not invoked, no reconnect
\* timer is armed with it and no connection is opened with it.
C29_EarlierCallbacksUnused ==
    [][/\ \A g \in 1..MaxStarts : invoked'[g] <= 1
       /\ (starts > 1 /\ starts' = starts /\ timerCaller = starts) =>
            /\ \A g \in 1..(starts - 1) : invoked'[g] = invoked[g]
            /\ reconnectCaller' # reconnectCaller => reconnectCaller' \in {0, starts}
            /\ connects' # connects => socketCaller'[connects'] = starts]_vars

\* C30: the session has at most one live connection at any time, and it is the
\* one this.socket refers to: a socket is never replaced in this.socket while
\* it is still live.
C30_OneLiveConnection ==
    /\ Cardinality(LiveSockets) <= 1
    /\ LiveSockets \subseteq {socket}

C32_SocketTimeoutOnlyDestroys ==
    [][/\ timedOut' # 0 =>
            /\ UNCHANGED <<fields, capture>>
            /\ UNCHANGED <<resolves, rejects, result, connects, invoked, stoppedEvents>>
            /\ \A t \in Sockets :
                    sockState'[t] # sockState[t] =>
                        t = socket /\ sockState'[t] = "closing"
            /\ socket \in LiveSockets => sockState'[socket] = "closing"
       /\ \A s \in Sockets :
            (/\ sockState[s] = "closing" /\ sockState'[s] = "closed"
             /\ alive /\ ~hasResolvedOrRejected) =>
                /\ resolves' = resolves
                /\ connects' = connects
                /\ IF connectAttempts <= MaxRetryAttempts
                   THEN /\ rejects' = rejects
                        /\ reconnectTimeout' = "pending"
                        /\ alive' /\ ~hasResolvedOrRejected'
                   ELSE /\ rejects' = rejects + 1
                        /\ result' = "ConnectExhausted"
                        /\ ~alive' /\ hasResolvedOrRejected']_vars

\* the inactivity timeout of the open socket has just been handled: the socket
\* is destroyed, the session is alive and unsettled, nothing was delivered
C32_Witness ==
    /\ timedOut = 1
    /\ handshakes = 1
    /\ socket = 1
    /\ sockState[1] = "closing"
    /\ alive /\ ~hasResolvedOrRejected
    /\ Settlements = 0

\* C33: the promise returned by getGcodeSettings settles for every outcome of
\* the MQTT connection, the print messages, the FTP download and the
\* extraction, within the timeoutMs it was given: once more time than timeoutMs
\* has passed since the call, the promise is not pending.
C33_GcodeSettlesInTime ==
    (gcodePromise # "none" /\ elapsed > gcodeTimeoutMs) => gcodePromise = "resolved"

\* the alert clients that exist: created, not disconnected, not closed
AlertClients == {c \in Presses : created[c] /\ ~disconnected[c] /\ ~closed[c]}

\* C34: for one /print invocation at most one alert client exists at any time;
\* a press while a client is registered creates no second one, also when two
\* presses are handled concurrently, so every client that exists is the one
\* stored in activeAlertClients.
C34_OneAlertClient ==
    /\ Cardinality(AlertClients) <= 1
    /\ \A c \in AlertClients : activeAlertClients = c

\* C35: once the button collector has ended, activeAlertClients holds no entry
\* for the invocation and every alert client created for it has been
\* disconnected.
C35_EndedReleasesClients ==
    collector = "ended" =>
        /\ activeAlertClients = 0
        /\ \A c \in Presses : created[c] => disconnected[c]

====
